---- MODULE Spec2Model ----
(***************************************************************************)
(* The two example clients of the Honeycomb bot API:                       *)
(*   examples/bot-example.py         (definitions prefixed be_)            *)
(*   examples/bots/honeycomb_bot.py  (definitions prefixed hb_)            *)
(* Each client method is one blocking round trip through the requests      *)
(* library: it builds a request, hands it to requests.get/post, calls      *)
(* raise_for_status() on the response and decodes the body with .json().   *)
(* The library is the boundary of the model: a request is what a method    *)
(* passes to requests.get/post, a response is the Response object (or the  *)
(* transport exception) the library hands back.                            *)
(***************************************************************************)
EXTENDS Integers, Sequences, FiniteSets, TLC

VARIABLES
    script,     \* which file runs: "bot-example.py" or "honeycomb_bot.py"
    caller,     \* "__main__" (the file is run as a script) or "import" (its class is used by other code)
    environ,    \* os.environ, the three variables the files read
    pc,         \* position of the running program
    module,     \* the module's globals (API_KEY, API_BASE / BASE_URL, HEADERS)
    bot,        \* the HoneycombBot instance (its fields in honeycomb_bot.py)
    built,      \* history: the credentials as they were when the client was set up
    n_sent,     \* history: number of requests handed to requests.get/post
    n_calls,    \* history: number of client method calls started
    last,       \* history: the most recent method call, its response and its outcome
    first_feed, \* history: the first get_feed call of the run and its request
    locals,     \* local variables of main()
    exit_code   \* process exit status, -1 while running

vars == <<script, caller, environ, pc, module, bot, built, n_sent, n_calls, last, first_feed,
          locals, exit_code>>

(***************************************************************************)
(* Bounds of the model                                                     *)
(***************************************************************************)
\* method calls an importing caller makes on one client
MaxCalls == 2

(***************************************************************************)
(* Python and JSON values                                                  *)
(***************************************************************************)
\* Python's None where the code expects a str (an unset variable, an absent key)
None == "<None>"

\* decoded JSON values, tagged by their Python type
Null == [t |-> "null"]
Bool(b) == [t |-> "bool", v |-> b]
Str(s) == [t |-> "str", v |-> s]
List(q) == [t |-> "list", v |-> q]
Obj(r) == [t |-> "obj", v |-> r]
\* a response body that is not JSON
NotJson == [t |-> "invalid"]

\* Python truth value of a decoded value (`if tags:`, `if not posts:`)
Truthy(j) ==
    CASE j.t = "null" -> FALSE
      [] j.t = "bool" -> j.v
      [] j.t = "str" -> j.v # ""
      [] j.t = "list" -> j.v # <<>>
      [] j.t = "obj" -> DOMAIN j.v # {}

\* (variant: `API_KEY is None`, which lets the empty string through)
Falsy_unset_only(s) == s = None

\* `not API_KEY` for a value that is a str or None
Falsy(s) == s = None \/ s = ""

\* a keyword argument with a default: the value passed, or the default
Arg(args, k, d) == IF k \in DOMAIN args THEN args[k] ELSE d

\* a call without arguments
NoArgs == <<>>

\* dict.get(key, default) on a decoded JSON object
DictGet(j, k, d) == IF k \in DOMAIN j.v THEN j.v[k] ELSE d

\* obj[key] succeeds: obj is a dict that has the key
HasKey(j, k) == j.t = "obj" /\ k \in DOMAIN j.v

\* a value as an f-string prints it
PyFormat(j) ==
    CASE j.t = "str" -> j.v
      [] j.t = "null" -> "None"
      [] j.t = "bool" -> IF j.v THEN "True" ELSE "False"
      [] OTHER -> "<repr>"

Min(a, b) == IF a <= b THEN a ELSE b

(***************************************************************************)
(* Environment                                                             *)
(***************************************************************************)
Keys == {None, "", "hcb_live_1"}
be_DEFAULT_URL == "https://your-honeycomb-url.replit.app"
hb_DEFAULT_URL == "https://thehoneycomb.social/api"
be_OverrideUrl == "https://hive.test"
hb_OverrideUrl == "https://hive.test/api"
AltUrl == "https://alt.test/api"

\* os.environ.get(name, default)
environ_get(name, default) ==
    IF environ[name] = None THEN default ELSE environ[name]

(***************************************************************************)
(* Requests and responses                                                  *)
(***************************************************************************)
\* an f-string URL, kept in its parts: what precedes the path, the path, and
\* what follows the "?" ("" when the URL has no "?")
Url(base, path, query) == [base |-> base, path |-> path, query |-> query]
NoQuery == ""

Statuses == {101, 199, 200, 299, 300, 399, 400, 599, 600}

Post(id) == Obj([id |-> Str(id), title |-> Str("T-" \o id), upvotes |-> Str("3")])
PostIds == {"p1", "p2"}

\* bodies tried with every status: not JSON, an error object, a feed envelope
CommonBodies ==
    { NotJson,
      Obj([error |-> Str("denied")]),
      Obj([posts |-> List(<<Post("p1")>>)]) }
\* further bodies, of the shapes the endpoints and the two main() flows meet
ShapedBodies ==
    { List(<<>>),
      Obj([name |-> Str("bee"), isBot |-> Bool(TRUE)]),
      Obj([bot |-> Obj([name |-> Str("bee")])]),
      Obj([bot |-> Str("bee")]),
      Post("p1"),
      Obj([post |-> Post("p1")]),
      Obj([posts |-> List(<<>>)]),
      Obj([posts |-> Null]),
      Obj([posts |-> Str("none")]),
      Obj([posts |-> List(<<Post("p2"), Post("p1")>>)]),
      Obj([posts |-> List(<<Obj([id |-> Str("p1")])>>)]),
      Obj([posts |-> List(<<Obj([title |-> Str("T")])>>)]),
      Obj([posts |-> List(<<Post("p1"), Post("p2"), Post("p1"), Post("p2"), Post("p1"),
                            Obj([id |-> Str("p2")])>>)]) }

\* the requests library raised instead of returning a Response
ConnectionFailed == [error |-> "ConnectionError"]

Responses ==
    {ConnectionFailed}
    \cup [status : Statuses, body : CommonBodies]
    \cup [status : {200}, body : ShapedBodies]

NoCall == [name |-> "none"]

\* outcomes of a method call
Return(v) == [kind |-> "return", value |-> v]
Raise(exc) == [kind |-> "raise", exc |-> exc]
RaiseHTTP(status) == [kind |-> "raise", exc |-> "HTTPError", status |-> status]

\* (variant: only server errors raise)
raise_for_status_5xx(status) == 500 <= status /\ status < 600

\* Response.raise_for_status(): TRUE when it raises HTTPError
raise_for_status(status) == 400 <= status /\ status < 600

\* what every method does with the response: requests.get/post may raise,
\* raise_for_status() may raise, .json() may raise, else the body is decoded
Decoded(resp) ==
    IF "status" \notin DOMAIN resp THEN Raise(resp.error)
    ELSE IF raise_for_status(resp.status) THEN RaiseHTTP(resp.status)
    ELSE IF resp.body = NotJson THEN Raise("JSONDecodeError")
    ELSE Return(resp.body)

\* `.get("posts", [])` on the decoded body
GetPosts(body) ==
    IF body.t = "obj" THEN Return(DictGet(body, "posts", List(<<>>)))
    ELSE Raise("AttributeError")
\* `.get("post")` on the decoded body
GetPost(body) ==
    IF body.t = "obj" THEN Return(DictGet(body, "post", Null))
    ELSE Raise("AttributeError")

\* (variant: the request is sent again after a transport failure or an error status)
Issue_retrying(n, resp) ==
    IF "status" \notin DOMAIN resp \/ raise_for_status(resp.status) THEN n + 2 ELSE n + 1

\* the one requests.get/post call of a method: the request is handed over once,
\* whatever comes back
Issue(n, resp) == n + 1

\* one method call: its request goes out, its outcome is that of this response
Call(name, args, req, resp, out) ==
    /\ n_sent' = Issue(n_sent, resp)
    /\ n_calls' = n_calls + 1
    /\ last' = [name |-> name, args |-> args, request |-> req,
                response |-> resp, outcome |-> out]
    /\ first_feed' = IF name = "get_feed" /\ first_feed = NoCall
                     THEN [name |-> name, args |-> args, request |-> req]
                     ELSE first_feed

NoBot == [made |-> FALSE]
NoModule == [loaded |-> FALSE]
NoLocals == [posts |-> Null]

(***************************************************************************)
(* examples/bot-example.py                                                 *)
(***************************************************************************)
BE == "bot-example.py"

be_HEADERS(key) ==
    ("X-API-Key" :> key) @@ ("Content-Type" :> "application/json")

\* module level: read the environment, stop without a key, build HEADERS
be_module ==
    /\ script = BE
    /\ pc = "load"
    /\ LET base == environ_get("HONEYCOMB_API_URL", be_DEFAULT_URL)
           key == environ_get("HONEYCOMB_API_KEY", None)
       IN  IF Falsy(key)
           THEN /\ module' = [loaded |-> TRUE, API_BASE |-> base, API_KEY |-> key]
                /\ pc' = "exit"
                /\ exit_code' = 1
                /\ built' = built
           ELSE /\ module' = [loaded |-> TRUE, API_BASE |-> base, API_KEY |-> key,
                              HEADERS |-> be_HEADERS(key)]
                /\ pc' = IF caller = "__main__" THEN "main" ELSE "ready"
                /\ exit_code' = exit_code
                /\ built' = [loaded |-> TRUE, API_BASE |-> base, API_KEY |-> key,
                             HEADERS |-> be_HEADERS(key)]
    /\ UNCHANGED <<script, caller, environ, bot, n_sent, n_calls, last, first_feed, locals>>

be_get_profile_request(m) ==
    [method |-> "GET", url |-> Url(m.API_BASE, "/api/bot/me", NoQuery),
     headers |-> m.HEADERS]
be_get_profile_result(resp) == Decoded(resp)
be_get_profile_call(args, resp) ==
    Call("get_profile", args, be_get_profile_request(module), resp,
         be_get_profile_result(resp))

\* (variant: the sort is put in the path)
be_get_feed_request_sort_in_path(m, args) ==
    [method |-> "GET",
     url |-> Url(m.API_BASE, "/api/bot/feed/" \o Arg(args, "sort", "new"), NoQuery),
     headers |-> m.HEADERS]
be_get_feed_request(m, args) ==
    [method |-> "GET",
     url |-> Url(m.API_BASE, "/api/bot/feed", "sort=" \o Arg(args, "sort", "new")),
     headers |-> m.HEADERS]
\* (variant: the envelope is returned, as honeycomb_bot.py does)
be_get_feed_result_envelope(resp) == Decoded(resp)
be_get_feed_result(resp) ==
    LET res == Decoded(resp)
    IN  IF res.kind = "raise" THEN res ELSE GetPosts(res.value)
be_get_feed_call(args, resp) ==
    Call("get_feed", args, be_get_feed_request(module, args), resp,
         be_get_feed_result(resp))

be_get_post_request(m, args) ==
    [method |-> "GET",
     url |-> Url(m.API_BASE, "/api/bot/posts/" \o args.post_id, NoQuery),
     headers |-> m.HEADERS]
be_get_post_result(resp) ==
    LET res == Decoded(resp)
    IN  IF res.kind = "raise" THEN res ELSE GetPost(res.value)
be_get_post_call(args, resp) ==
    Call("get_post", args, be_get_post_request(module, args), resp,
         be_get_post_result(resp))

\* data = {"title": title, "body": body}; if tags: data["tags"] = tags
be_create_post_json(args) ==
    LET tags == Arg(args, "tags", Null)
        data == [title |-> args.title, body |-> args.body]
    IN  IF Truthy(tags) THEN data @@ ("tags" :> tags.v) ELSE data
be_create_post_request(m, args) ==
    [method |-> "POST", url |-> Url(m.API_BASE, "/api/bot/posts", NoQuery),
     headers |-> m.HEADERS, json |-> be_create_post_json(args)]
be_create_post_result(resp) == Decoded(resp)
be_create_post_call(args, resp) ==
    Call("create_post", args, be_create_post_request(module, args), resp,
         be_create_post_result(resp))

be_comment_request(m, args) ==
    [method |-> "POST",
     url |-> Url(m.API_BASE, "/api/bot/posts/" \o args.post_id \o "/comments", NoQuery),
     headers |-> m.HEADERS, json |-> [body |-> args.body]]
be_comment_result(resp) == Decoded(resp)
be_comment_call(args, resp) ==
    Call("comment", args, be_comment_request(module, args), resp,
         be_comment_result(resp))

\* (variant: a direction other than up/down is replaced)
be_vote_json_clamped(direction) ==
    [direction |-> IF direction \in {"up", "down"} THEN direction ELSE "up"]
be_vote_json(direction) == [direction |-> direction]
be_vote_request(m, args) ==
    [method |-> "POST",
     url |-> Url(m.API_BASE, "/api/bot/posts/" \o args.post_id \o "/vote", NoQuery),
     headers |-> m.HEADERS, json |-> be_vote_json(args.direction)]
be_vote_result(resp) == Decoded(resp)
be_vote_call(args, resp) ==
    Call("vote", args, be_vote_request(module, args), resp, be_vote_result(resp))


\* an uncaught exception ends the script with a traceback and status 1
Abort == pc' = "exit" /\ exit_code' = 1
\* main() returned
Done == pc' = "exit" /\ exit_code' = 0
Goto(label) == pc' = label /\ exit_code' = exit_code

(***************************************************************************)
(* An importing caller of bot-example.py: any method, any order            *)
(***************************************************************************)
Sorts == {"new", "top"}
Directions == {"up", "sideways"}
Titles == {"Hello"}
Texts == {"Great post!"}
TagLists == {List(<<>>), List(<<"bot", "python">>)}

\* the ways to pass or omit one keyword argument
Optional(k, S) == {NoArgs} \cup {(k :> x) : x \in S}

be_get_feed_args == Optional("sort", Sorts)
be_get_post_args == [post_id : PostIds]
be_create_post_args ==
    {[title |-> t, body |-> b] @@ o :
        t \in Titles, b \in Texts, o \in Optional("tags", TagLists)}
be_comment_args == [post_id : PostIds, body : Texts]
be_vote_args == [post_id : PostIds, direction : Directions]

be_Ready == script = BE /\ pc = "calls" /\ n_calls < MaxCalls
Frame == UNCHANGED <<script, caller, environ, pc, module, bot, built, locals, exit_code>>

\* bot = HoneycombBot(): the class has no __init__ and no fields
be_HoneycombBot ==
    /\ script = BE
    /\ pc = "ready"
    /\ bot' = [made |-> TRUE]
    /\ pc' = "calls"
    /\ UNCHANGED <<script, caller, environ, module, built, n_sent, n_calls, last, first_feed,
                   locals, exit_code>>

be_get_profile ==
    be_Ready /\ Frame /\ \E resp \in Responses : be_get_profile_call(NoArgs, resp)
be_get_feed ==
    be_Ready /\ Frame
    /\ \E args \in be_get_feed_args, resp \in Responses : be_get_feed_call(args, resp)
be_get_post ==
    be_Ready /\ Frame
    /\ \E args \in be_get_post_args, resp \in Responses : be_get_post_call(args, resp)
be_create_post ==
    be_Ready /\ Frame
    /\ \E args \in be_create_post_args, resp \in Responses : be_create_post_call(args, resp)
be_comment ==
    be_Ready /\ Frame
    /\ \E args \in be_comment_args, resp \in Responses : be_comment_call(args, resp)
be_vote ==
    be_Ready /\ Frame
    /\ \E args \in be_vote_args, resp \in Responses : be_vote_call(args, resp)

(***************************************************************************)
(* main() of bot-example.py                                                *)
(***************************************************************************)
MainFrame == UNCHANGED <<script, caller, environ, module, built>>
NoRequest == UNCHANGED <<n_sent, n_calls, last, first_feed>>

\* profile['name'] and profile.get('isBot') succeed
be_profile_printed(profile) == HasKey(profile, "name")

\* the loop over posts[:5] printing post['title'] runs through
be_posts_printed(posts) ==
    /\ posts.t = "list"
    /\ \A i \in 1..Min(5, Len(posts.v)) : HasKey(posts.v[i], "title")

\* bot = HoneycombBot(); profile = bot.get_profile(); the two prints
be_main_get_profile ==
    /\ script = BE
    /\ pc = "main"
    /\ bot' = [made |-> TRUE]
    /\ locals' = locals
    /\ \E resp \in Responses :
         LET out == be_get_profile_result(resp)
         IN  /\ be_get_profile_call(NoArgs, resp)
             /\ IF out.kind = "raise" THEN Abort
                ELSE IF be_profile_printed(out.value) THEN Goto("m_feed")
                ELSE Abort
    /\ MainFrame

\* posts = bot.get_feed("new"); `if not posts:`; the listing of the first five
be_main_get_feed ==
    /\ script = BE
    /\ pc = "m_feed"
    /\ bot' = bot
    /\ \E resp \in Responses :
         LET out == be_get_feed_result(resp)
         IN  /\ be_get_feed_call([sort |-> "new"], resp)
             /\ IF out.kind = "raise" THEN Abort /\ locals' = locals
                ELSE /\ locals' = [locals EXCEPT !.posts = out.value]
                     /\ IF ~Truthy(out.value) THEN Goto("m_create")
                        ELSE IF be_posts_printed(out.value) THEN Goto("m_vote")
                        ELSE Abort
    /\ MainFrame

\* the arguments main() passes (the texts without their emoji)
be_main_create_post_args ==
    [title |-> "Hello from Honeycomb Bot!",
     body |-> "This is an automated post created by a Python bot using the Honeycomb API.",
     tags |-> List(<<"bot", "python", "automated">>)]

\* new_post = bot.create_post(...); print(new_post['title']); the closing print
be_main_create_post ==
    /\ script = BE
    /\ pc = "m_create"
    /\ bot' = bot
    /\ locals' = locals
    /\ \E resp \in Responses :
         LET out == be_create_post_result(resp)
         IN  /\ be_create_post_call(be_main_create_post_args, resp)
             /\ IF out.kind = "raise" THEN Abort
                ELSE IF HasKey(out.value, "title") THEN Done
                ELSE Abort
    /\ MainFrame

\* (variant: a failed vote is swallowed and the comment still sent)
be_main_vote_continues ==
    /\ script = BE
    /\ pc = "m_vote"
    /\ bot' = bot
    /\ locals' = locals
    /\ LET first_post == locals.posts.v[1]
       IN  IF ~HasKey(first_post, "id") THEN Abort /\ NoRequest
           ELSE \E resp \in Responses :
                  /\ be_vote_call([post_id |-> PyFormat(first_post.v.id),
                                   direction |-> "up"], resp)
                  /\ Goto("m_comment")
    /\ MainFrame

\* first_post = posts[0]; bot.vote(first_post["id"], "up")
be_main_vote ==
    /\ script = BE
    /\ pc = "m_vote"
    /\ bot' = bot
    /\ locals' = locals
    /\ LET first_post == locals.posts.v[1]
       IN  IF ~HasKey(first_post, "id") THEN Abort /\ NoRequest
           ELSE \E resp \in Responses :
                  LET out == be_vote_result(resp)
                  IN  /\ be_vote_call([post_id |-> PyFormat(first_post.v.id),
                                       direction |-> "up"], resp)
                      /\ IF out.kind = "raise" THEN Abort ELSE Goto("m_comment")
    /\ MainFrame

\* bot.comment(first_post["id"], ...); the closing print
be_main_comment ==
    /\ script = BE
    /\ pc = "m_comment"
    /\ bot' = bot
    /\ locals' = locals
    /\ LET first_post == locals.posts.v[1]
       IN  \E resp \in Responses :
             LET out == be_comment_result(resp)
             IN  /\ be_comment_call(
                       [post_id |-> PyFormat(first_post.v.id),
                        body |-> "Great post! This comment was added by a Python bot."],
                       resp)
                 /\ IF out.kind = "raise" THEN Abort ELSE Done
    /\ MainFrame

(***************************************************************************)
(* examples/bots/honeycomb_bot.py                                          *)
(***************************************************************************)
HB == "honeycomb_bot.py"

\* module level: API_KEY and BASE_URL are read, nothing is checked
hb_module ==
    /\ script = HB
    /\ pc = "load"
    /\ module' = [loaded |-> TRUE,
                  API_KEY |-> environ_get("HONEYCOMB_API_KEY", None),
                  BASE_URL |-> environ_get("HONEYCOMB_BASE_URL", hb_DEFAULT_URL)]
    /\ pc' = IF caller = "__main__" THEN "main" ELSE "ready"
    /\ UNCHANGED <<script, caller, environ, bot, built, n_sent, n_calls, last, first_feed,
                   locals, exit_code>>

hb_headers(api_key) ==
    ("X-Bot-API-Key" :> api_key) @@ ("Content-Type" :> "application/json")

\* HoneycombBot.__init__(api_key, base_url=BASE_URL): the fields of the instance
hb_init(args) ==
    [made |-> TRUE,
     api_key |-> args.api_key,
     base_url |-> Arg(args, "base_url", module.BASE_URL),
     headers |-> hb_headers(args.api_key)]

hb_get_me_request(self) ==
    [method |-> "GET", url |-> Url(self.base_url, "/bot/me", NoQuery),
     headers |-> self.headers]
hb_get_me_result(resp) == Decoded(resp)
hb_get_me_call(args, resp) ==
    Call("get_me", args, hb_get_me_request(bot), resp, hb_get_me_result(resp))

\* (variant: tags left out unless given, as bot-example.py does)
hb_create_post_json_omits(args) ==
    LET tags == Arg(args, "tags", Null)
        data == [title |-> args.title, body |-> args.body]
    IN  IF Truthy(tags) THEN data @@ ("tags" :> tags.v) ELSE data

\* json={"title": title, "body": body, "tags": tags or []}
hb_create_post_json(args) ==
    LET tags == Arg(args, "tags", Null)
    IN  [title |-> args.title, body |-> args.body,
         tags |-> IF Truthy(tags) THEN tags.v ELSE <<>>]
hb_create_post_request(self, args) ==
    [method |-> "POST", url |-> Url(self.base_url, "/bot/posts", NoQuery),
     headers |-> self.headers, json |-> hb_create_post_json(args)]
hb_create_post_result(resp) == Decoded(resp)
hb_create_post_call(args, resp) ==
    Call("create_post", args, hb_create_post_request(bot, args), resp,
         hb_create_post_result(resp))

hb_comment_on_post_request(self, args) ==
    [method |-> "POST",
     url |-> Url(self.base_url, "/bot/posts/" \o args.post_id \o "/comments", NoQuery),
     headers |-> self.headers, json |-> [body |-> args.body]]
hb_comment_on_post_result(resp) == Decoded(resp)
hb_comment_on_post_call(args, resp) ==
    Call("comment_on_post", args, hb_comment_on_post_request(bot, args), resp,
         hb_comment_on_post_result(resp))

hb_vote_on_post_json(direction) == [direction |-> direction]
hb_vote_on_post_request(self, args) ==
    [method |-> "POST",
     url |-> Url(self.base_url, "/bot/posts/" \o args.post_id \o "/vote", NoQuery),
     headers |-> self.headers,
     json |-> hb_vote_on_post_json(Arg(args, "direction", "up"))]
hb_vote_on_post_result(resp) == Decoded(resp)
hb_vote_on_post_call(args, resp) ==
    Call("vote_on_post", args, hb_vote_on_post_request(bot, args), resp,
         hb_vote_on_post_result(resp))

\* params={"limit": limit, "offset": offset}
hb_get_feed_params(args) ==
    [limit |-> Arg(args, "limit", 20), offset |-> Arg(args, "offset", 0)]
hb_get_feed_request(self, args) ==
    [method |-> "GET", url |-> Url(self.base_url, "/bot/feed", NoQuery),
     headers |-> self.headers, params |-> hb_get_feed_params(args)]
hb_get_feed_result(resp) == Decoded(resp)
hb_get_feed_call(args, resp) ==
    Call("get_feed", args, hb_get_feed_request(bot, args), resp, hb_get_feed_result(resp))

hb_enable_heartbeat_json(args) ==
    LET topics == Arg(args, "topics", Null)
    IN  [intervalMinutes |-> Arg(args, "interval_minutes", 30),
         maxDailyPosts |-> Arg(args, "max_daily_posts", 48),
         topics |-> IF Truthy(topics) THEN topics.v ELSE <<"AI", "blockchain", "DeFi">>,
         personality |-> Arg(args, "personality", "autonomous")]
hb_enable_heartbeat_request(self, args) ==
    [method |-> "POST", url |-> Url(self.base_url, "/bot/heartbeat/enable", NoQuery),
     headers |-> self.headers, json |-> hb_enable_heartbeat_json(args)]
hb_enable_heartbeat_result(resp) == Decoded(resp)
hb_enable_heartbeat_call(args, resp) ==
    Call("enable_heartbeat", args, hb_enable_heartbeat_request(bot, args), resp,
         hb_enable_heartbeat_result(resp))

\* (variant: the body-less POST is sent without the headers)
hb_disable_heartbeat_request_bare(self) ==
    [method |-> "POST", url |-> Url(self.base_url, "/bot/heartbeat/disable", NoQuery)]
hb_disable_heartbeat_request(self) ==
    [method |-> "POST", url |-> Url(self.base_url, "/bot/heartbeat/disable", NoQuery),
     headers |-> self.headers]
hb_disable_heartbeat_result(resp) == Decoded(resp)
hb_disable_heartbeat_call(args, resp) ==
    Call("disable_heartbeat", args, hb_disable_heartbeat_request(bot), resp,
         hb_disable_heartbeat_result(resp))

(***************************************************************************)
(* An importing caller of honeycomb_bot.py: any key, any method, any order *)
(***************************************************************************)
hb_init_args ==
    {[api_key |-> k] : k \in Keys} \cup {[api_key |-> "hcb_live_1", base_url |-> AltUrl]}
hb_create_post_args ==
    {[title |-> t, body |-> b] @@ o :
        t \in Titles, b \in Texts, o \in Optional("tags", TagLists)}
hb_comment_on_post_args == [post_id : PostIds, body : Texts]
hb_vote_on_post_args ==
    {[post_id |-> i] @@ o : i \in PostIds, o \in Optional("direction", Directions)}
hb_get_feed_args ==
    {NoArgs, [limit |-> 5], [offset |-> 40], [limit |-> 5, offset |-> 40]}
hb_enable_heartbeat_args ==
    {NoArgs,
     [topics |-> List(<<>>)],
     [interval_minutes |-> 5, max_daily_posts |-> 24,
      topics |-> List(<<"AI agents", "Web3">>), personality |-> "curious"]}

hb_Ready == script = HB /\ pc = "calls" /\ n_calls < MaxCalls

\* bot = HoneycombBot(api_key) or HoneycombBot(api_key, base_url)
hb_HoneycombBot ==
    /\ script = HB
    /\ pc = "ready"
    /\ \E args \in hb_init_args :
         /\ bot' = hb_init(args)
         /\ built' = hb_init(args)
    /\ pc' = "calls"
    /\ UNCHANGED <<script, caller, environ, module, n_sent, n_calls, last, first_feed,
                   locals, exit_code>>

hb_get_me == hb_Ready /\ Frame /\ \E resp \in Responses : hb_get_me_call(NoArgs, resp)
hb_create_post ==
    hb_Ready /\ Frame
    /\ \E args \in hb_create_post_args, resp \in Responses : hb_create_post_call(args, resp)
hb_comment_on_post ==
    hb_Ready /\ Frame
    /\ \E args \in hb_comment_on_post_args, resp \in Responses :
         hb_comment_on_post_call(args, resp)
hb_vote_on_post ==
    hb_Ready /\ Frame
    /\ \E args \in hb_vote_on_post_args, resp \in Responses : hb_vote_on_post_call(args, resp)
hb_get_feed ==
    hb_Ready /\ Frame
    /\ \E args \in hb_get_feed_args, resp \in Responses : hb_get_feed_call(args, resp)
hb_enable_heartbeat ==
    hb_Ready /\ Frame
    /\ \E args \in hb_enable_heartbeat_args, resp \in Responses :
         hb_enable_heartbeat_call(args, resp)
\* (variant: the body-less POST first drops Content-Type from self.headers)
hb_disable_heartbeat_pops_header ==
    /\ hb_Ready
    /\ bot' = [bot EXCEPT !.headers = ("X-Bot-API-Key" :> bot.api_key)]
    /\ UNCHANGED <<script, caller, environ, pc, module, built, locals, exit_code>>
    /\ \E resp \in Responses :
         Call("disable_heartbeat", NoArgs,
              [hb_disable_heartbeat_request(bot) EXCEPT
                   !.headers = ("X-Bot-API-Key" :> bot.api_key)],
              resp, hb_disable_heartbeat_result(resp))
hb_disable_heartbeat ==
    hb_Ready /\ Frame /\ \E resp \in Responses : hb_disable_heartbeat_call(NoArgs, resp)

(***************************************************************************)
(* main() of honeycomb_bot.py                                              *)
(***************************************************************************)
\* `if not API_KEY: print(...); return`, else bot = HoneycombBot(API_KEY)
hb_main_start ==
    /\ script = HB
    /\ pc = "main"
    /\ IF Falsy(module.API_KEY)
       THEN Done /\ UNCHANGED <<bot, built>>
       ELSE /\ bot' = hb_init([api_key |-> module.API_KEY])
            /\ built' = hb_init([api_key |-> module.API_KEY])
            /\ Goto("m_me")
    /\ UNCHANGED <<script, caller, environ, module, locals>>
    /\ NoRequest

\* profile.get('bot', {}).get('name', 'Unknown') succeeds
hb_profile_printed(profile) ==
    /\ profile.t = "obj"
    /\ DictGet(profile, "bot", Obj(<<>>)).t = "obj"

\* profile = bot.get_me(); the print
hb_main_get_me ==
    /\ script = HB
    /\ pc = "m_me"
    /\ UNCHANGED <<bot, locals>>
    /\ \E resp \in Responses :
         LET out == hb_get_me_result(resp)
         IN  /\ hb_get_me_call(NoArgs, resp)
             /\ IF out.kind = "raise" THEN Abort
                ELSE IF hb_profile_printed(out.value) THEN Goto("m_heartbeat")
                ELSE Abort
    /\ MainFrame

hb_main_enable_heartbeat_args ==
    [interval_minutes |-> 30, max_daily_posts |-> 24,
     topics |-> List(<<"AI agents", "Web3", "BNB Chain", "decentralization">>),
     personality |-> "autonomous"]

\* heartbeat = bot.enable_heartbeat(...); the print
hb_main_enable_heartbeat ==
    /\ script = HB
    /\ pc = "m_heartbeat"
    /\ UNCHANGED <<bot, locals>>
    /\ \E resp \in Responses :
         LET out == hb_enable_heartbeat_result(resp)
         IN  /\ hb_enable_heartbeat_call(hb_main_enable_heartbeat_args, resp)
             /\ IF out.kind = "raise" THEN Abort ELSE Goto("m_create")
    /\ MainFrame

\* the arguments main() passes
hb_main_create_post_args ==
    [title |-> "Hello from Python Bot",
     body |-> "Greetings, fellow agents! I am an autonomous AI running on Honeycomb. "
              \o "The future of decentralized social is here, and we are the pioneers.",
     tags |-> List(<<"python", "ai", "introduction">>)]

\* post = bot.create_post(...); the print
hb_main_create_post ==
    /\ script = HB
    /\ pc = "m_create"
    /\ UNCHANGED <<bot, locals>>
    /\ \E resp \in Responses :
         LET out == hb_create_post_result(resp)
         IN  /\ hb_create_post_call(hb_main_create_post_args, resp)
             /\ IF out.kind = "raise" THEN Abort ELSE Goto("m_feed")
    /\ MainFrame

\* len(posts) succeeds
hb_posts_counted(posts) == posts.t \in {"list", "str", "obj"}

\* first_post = posts[0]; first_post.get('title', 'Untitled')[:50] succeeds
hb_first_post_printed(posts) ==
    /\ posts.t = "list"
    /\ posts.v[1].t = "obj"
    /\ DictGet(posts.v[1], "title", Str("Untitled")).t = "str"

\* feed = bot.get_feed(limit=5); posts = feed.get("posts", []); `if posts:`
hb_main_get_feed ==
    /\ script = HB
    /\ pc = "m_feed"
    /\ bot' = bot
    /\ \E resp \in Responses :
         LET out == hb_get_feed_result(resp)
             posts == DictGet(out.value, "posts", List(<<>>))
         IN  /\ hb_get_feed_call([limit |-> 5], resp)
             /\ IF out.kind = "raise" \/ out.value.t # "obj" THEN Abort /\ locals' = locals
                ELSE /\ locals' = [locals EXCEPT !.posts = posts]
                     /\ IF ~hb_posts_counted(posts) THEN Abort
                        ELSE IF ~Truthy(posts) THEN Done
                        ELSE IF hb_first_post_printed(posts) THEN Goto("m_vote")
                        ELSE Abort
    /\ MainFrame

\* vote = bot.vote_on_post(first_post["id"], "up"); the print
hb_main_vote_on_post ==
    /\ script = HB
    /\ pc = "m_vote"
    /\ UNCHANGED <<bot, locals>>
    /\ LET first_post == locals.posts.v[1]
       IN  IF ~HasKey(first_post, "id") THEN Abort /\ NoRequest
           ELSE \E resp \in Responses :
                  LET out == hb_vote_on_post_result(resp)
                  IN  /\ hb_vote_on_post_call([post_id |-> PyFormat(first_post.v.id),
                                               direction |-> "up"], resp)
                      /\ IF out.kind = "raise" THEN Abort ELSE Done
    /\ MainFrame

(***************************************************************************)
(* Specification                                                           *)
(***************************************************************************)
\* the file is run with any environment, or imported and its class used;
\* code importing honeycomb_bot.py passes the key and the base URL itself
Init ==
    /\ script \in {BE, HB}
    /\ caller \in {"__main__", "import"}
    /\ environ \in [HONEYCOMB_API_KEY : Keys,
                    HONEYCOMB_API_URL : {None, be_OverrideUrl},
                    HONEYCOMB_BASE_URL : {None, hb_OverrideUrl}]
    /\ (script = BE) => environ.HONEYCOMB_BASE_URL = None
    /\ (script = HB) => environ.HONEYCOMB_API_URL = None
    /\ (script = HB /\ caller = "import") =>
           environ.HONEYCOMB_API_KEY = None /\ environ.HONEYCOMB_BASE_URL = None
    /\ pc = "load"
    /\ module = NoModule
    /\ bot = NoBot
    /\ built = NoModule
    /\ n_sent = 0
    /\ n_calls = 0
    /\ last = NoCall
    /\ first_feed = NoCall
    /\ locals = NoLocals
    /\ exit_code = -1

Next ==
    \/ be_module
    \/ be_HoneycombBot
    \/ be_get_profile
    \/ be_get_feed
    \/ be_get_post
    \/ be_create_post
    \/ be_comment
    \/ be_vote
    \/ be_main_get_profile
    \/ be_main_get_feed
    \/ be_main_create_post
    \/ be_main_vote
    \/ be_main_comment
    \/ hb_module
    \/ hb_HoneycombBot
    \/ hb_get_me
    \/ hb_create_post
    \/ hb_comment_on_post
    \/ hb_vote_on_post
    \/ hb_get_feed
    \/ hb_enable_heartbeat
    \/ hb_disable_heartbeat
    \/ hb_main_start
    \/ hb_main_get_me
    \/ hb_main_enable_heartbeat
    \/ hb_main_create_post
    \/ hb_main_get_feed
    \/ hb_main_vote_on_post

Spec == Init /\ [][Next]_vars

(***************************************************************************)
(* Properties                                                              *)
(***************************************************************************)
Called == last.name # "none"
HasStatus == Called /\ "status" \in DOMAIN last.response
Returned == Called /\ last.outcome.kind = "return"
Raised == Called /\ last.outcome.kind = "raise"
\* the stored credentials of the client in use
Client == IF script = BE THEN module ELSE bot
AuthHeader == IF script = BE THEN "X-API-Key" ELSE "X-Bot-API-Key"
\* the methods that take a field out of the decoded body
Extracting == script = BE /\ last.name \in {"get_feed", "get_post"}

\* C1 as stated: every status outside [200,299] ends in a failure that carries
\* the status, every status in [200,299] returns a value
C1_AsClaimed ==
    HasStatus =>
        IF 200 <= last.response.status /\ last.response.status <= 299
        THEN last.outcome.kind = "return"
        ELSE /\ last.outcome.kind = "raise"
             /\ "status" \in DOMAIN last.outcome
             /\ last.outcome.status = last.response.status

\* C1 (amended): a status in [400,599] ends in HTTPError carrying that status
\* and no body is returned; every other status, 1xx and 3xx like 2xx, has its
\* body decoded: a JSON body (a JSON object for get_feed and get_post of
\* bot-example.py) is returned as the value, a body that is not JSON ends in
\* JSONDecodeError and a non-object where a field is taken in AttributeError,
\* neither carrying a status
C1_StatusOutcome ==
    HasStatus =>
        LET st == last.response.status
            body == last.response.body
        IN  IF 400 <= st /\ st <= 599
            THEN last.outcome = [kind |-> "raise", exc |-> "HTTPError", status |-> st]
            ELSE IF body = NotJson
            THEN last.outcome = [kind |-> "raise", exc |-> "JSONDecodeError"]
            ELSE IF Extracting /\ body.t # "obj"
            THEN last.outcome = [kind |-> "raise", exc |-> "AttributeError"]
            ELSE last.outcome.kind = "return"

C1_Witness ==
    /\ HasStatus
    /\ last.response.status = 400
    /\ last.response.body # NotJson
    /\ last.outcome.kind = "raise"

\* the tags a create_post call was given (the empty sequence when omitted)
GivenTags == IF "tags" \in DOMAIN last.args THEN last.args.tags.v ELSE <<>>

\* C2 as stated: in both files create_post sends exactly title, body and tags,
\* tags being the list given or the empty sequence, and returns the decoded
\* response unchanged
C2_AsClaimed ==
    (Called /\ last.name = "create_post") =>
        /\ last.request.json =
               [title |-> last.args.title, body |-> last.args.body, tags |-> GivenTags]
        /\ Returned => last.outcome.value = last.response.body

\* C2 (amended): create_post of honeycomb_bot.py sends exactly title, body and
\* tags (the list given, the empty sequence when omitted); create_post of
\* bot-example.py sends title and body, and tags only when a non-empty list
\* was given; both return the decoded response unchanged on success
C2_CreatePostBody ==
    (Called /\ last.name = "create_post") =>
        /\ "json" \in DOMAIN last.request
        /\ IF script = HB \/ GivenTags # <<>>
           THEN last.request.json =
                    [title |-> last.args.title, body |-> last.args.body, tags |-> GivenTags]
           ELSE last.request.json = [title |-> last.args.title, body |-> last.args.body]
        /\ Returned => last.outcome.value = last.response.body
        /\ (HasStatus /\ last.response.status \in 200..299 /\ last.response.body # NotJson)
               => Returned

C2_Witness ==
    /\ Called
    /\ script = HB
    /\ last.name = "create_post"
    /\ "tags" \notin DOMAIN last.args
    /\ last.request.json.tags = <<>>
    /\ Returned

\* the key the client was to be built with is unset or empty
KeyMissing ==
    IF script = HB /\ caller = "import"
    THEN bot.made /\ bot.api_key \in {None, ""}
    ELSE environ.HONEYCOMB_API_KEY \in {None, ""}

\* C3 as stated: with a missing key no usable client exists and no request is
\* ever sent, HoneycombBot(api_key) of honeycomb_bot.py included
C3_AsClaimed == KeyMissing => n_sent = 0

\* C3 (amended): with HONEYCOMB_API_KEY unset or empty both files stop at
\* their own check before a client is built and before any request:
\* bot-example.py at module level with exit status 1, honeycomb_bot.py in
\* main(), which returns (exit status 0)
C3_ScriptsStopWithoutKey ==
    ((script = BE \/ caller = "__main__") /\ environ.HONEYCOMB_API_KEY \in {None, ""}) =>
        /\ n_sent = 0
        /\ n_calls = 0
        /\ ~bot.made
        /\ built = NoModule
        /\ pc \in {"load", "main", "exit"}
        /\ (script = BE => pc # "main")
        /\ pc = "exit" => exit_code = IF script = BE THEN 1 ELSE 0

C3_Witness ==
    /\ script = HB
    /\ caller = "__main__"
    /\ environ.HONEYCOMB_API_KEY = ""
    /\ pc = "exit"
    /\ n_sent = 0

\* C4 as stated: one request per call, and after any response with a status
\* outside [200,299] or a transport failure the call ends in that failure
C4_AsClaimed ==
    /\ n_sent = n_calls
    /\ (Called /\ ~(HasStatus /\ last.response.status \in 200..299)) => Raised

\* C4 (amended): every call hands exactly one request to the library whatever
\* the response, so requests sent equal calls started; after a transport
\* failure or a 4xx/5xx status no second request follows and that failure is
\* the outcome of the same call (other statuses are not failures to the code)
C4_OneRequestPerCall ==
    /\ n_sent = n_calls
    /\ (Called /\ ~HasStatus) =>
           last.outcome = [kind |-> "raise", exc |-> "ConnectionError"]
    /\ (HasStatus /\ last.response.status \in 400..599) =>
           /\ Raised
           /\ last.outcome.exc = "HTTPError"
           /\ last.outcome.status = last.response.status

C4_Witness ==
    /\ n_calls = 2
    /\ n_sent = 2
    /\ Called
    /\ ~HasStatus
    /\ Raised

\* a 2xx feed response that wraps a sequence of posts under `posts`
FeedAnswered ==
    /\ HasStatus
    /\ last.name = "get_feed"
    /\ last.response.status \in 200..299
    /\ last.response.body.t = "obj"
    /\ "posts" \in DOMAIN last.response.body.v
    /\ last.response.body.v.posts.t = "list"

\* C5 as stated: get_feed of both files returns the sequence under `posts`
C5_AsClaimed ==
    FeedAnswered => last.outcome = [kind |-> "return", value |-> last.response.body.v.posts]

\* C5 (amended): get_feed of bot-example.py returns exactly the sequence under
\* `posts`; get_feed of honeycomb_bot.py returns the enclosing envelope
\* unchanged, and its main() takes the sequence out of it
C5_FeedResult ==
    FeedAnswered =>
        IF script = BE
        THEN last.outcome = [kind |-> "return", value |-> last.response.body.v.posts]
        ELSE /\ last.outcome = [kind |-> "return", value |-> last.response.body]
             /\ caller = "__main__" => locals.posts = last.response.body.v.posts

C5_Witness ==
    /\ FeedAnswered
    /\ script = BE
    /\ Returned
    /\ last.outcome.value.t = "list"
    /\ Len(last.outcome.value.v) = 2
    /\ last.outcome.value.v[1].v.id = Str("p2")

\* C6: two get_feed calls on one client send the same method, path and
\* headers and differ in the query parameters only; without arguments the
\* query is sort=new (bot-example.py) or limit=20, offset=0 (honeycomb_bot.py)
C6_FeedQueryOnly ==
    (Called /\ last.name = "get_feed") =>
        LET a == first_feed.request
            b == last.request
        IN  /\ first_feed # NoCall
            /\ DOMAIN a = DOMAIN b
            /\ a.method = "GET" /\ b.method = "GET"
            /\ a.url.base = b.url.base
            /\ a.url.path = b.url.path
            /\ b.url.path = IF script = BE THEN "/api/bot/feed" ELSE "/bot/feed"
            /\ b.url.base = IF script = BE THEN built.API_BASE ELSE built.base_url
            /\ a.headers = b.headers
            /\ IF script = BE
               THEN /\ DOMAIN b = {"method", "url", "headers"}
                    /\ b.url.query =
                         IF "sort" \in DOMAIN last.args
                         THEN "sort=" \o last.args.sort ELSE "sort=new"
               ELSE /\ DOMAIN b = {"method", "url", "headers", "params"}
                    /\ b.url.query = NoQuery
                    /\ b.params =
                         [limit |-> IF "limit" \in DOMAIN last.args
                                    THEN last.args.limit ELSE 20,
                          offset |-> IF "offset" \in DOMAIN last.args
                                     THEN last.args.offset ELSE 0]

C6_Witness ==
    /\ Called
    /\ script = BE
    /\ caller = "import"
    /\ last.name = "get_feed"
    /\ n_calls = 2
    /\ first_feed.args = NoArgs
    /\ first_feed.request.url.query = "sort=new"
    /\ last.request.url.query = "sort=top"

\* C7: vote / vote_on_post forwards the direction as given, "up" or "down" or
\* not: the body is exactly {direction: value}, the request goes to
\* .../posts/{id}/vote, nothing is rejected before it is sent, and a failure
\* of the call is one the response brought
C7_VoteVerbatim ==
    (Called /\ last.name \in {"vote", "vote_on_post"}) =>
        /\ "json" \in DOMAIN last.request
        /\ last.request.json =
               [direction |-> IF "direction" \in DOMAIN last.args
                              THEN last.args.direction ELSE "up"]
        /\ last.request.method = "POST"
        /\ last.request.url.path =
               (IF script = BE THEN "/api" ELSE "") \o "/bot/posts/"
                   \o last.args.post_id \o "/vote"
        /\ n_sent = n_calls
        /\ Raised =>
               \/ ~HasStatus
               \/ last.outcome.exc = "JSONDecodeError"
               \/ /\ last.outcome.exc = "HTTPError"
                  /\ last.outcome.status = last.response.status
                  /\ last.response.status \notin 200..299

C7_Witness ==
    /\ HasStatus
    /\ last.name = "vote"
    /\ last.args.direction = "sideways"
    /\ last.request.json = [direction |-> "sideways"]
    /\ last.response.status = 400
    /\ Raised

\* C8: whatever calls were made and however they ended, the stored base URL,
\* key and headers are those of construction, each request carries them, and
\* the same call made again sends the same request
C8_CredentialsKept ==
    built # NoModule =>
        /\ Client = built
        /\ Called =>
               /\ "headers" \in DOMAIN last.request
               /\ last.request.headers = built[IF script = BE THEN "HEADERS" ELSE "headers"]
               /\ last.request.url.base =
                      built[IF script = BE THEN "API_BASE" ELSE "base_url"]
C8_SameCallSameRequest ==
    (Called /\ last'.name = last.name /\ last'.args = last.args) =>
        last'.request = last.request
\* C8: the client is stateless between calls: credentials are kept in every
\* state and repeating a call repeats its request
C8_Stateless == [](C8_CredentialsKept) /\ [][C8_SameCallSameRequest]_vars

C8_Witness ==
    /\ script = HB
    /\ n_calls = 2
    /\ Called
    /\ last.name = "disable_heartbeat"
    /\ ~HasStatus
    /\ bot = built
    /\ bot.api_key = "hcb_live_1"

\* the key the client was configured with
ConfiguredKey == IF script = BE THEN environ.HONEYCOMB_API_KEY ELSE built.api_key

BeMain == script = BE /\ caller = "__main__"

\* C10: in main() of bot-example.py every request follows the previous call's
\* success: get_profile first, get_feed("new") after it, then create_post when
\* the feed returned is empty, or vote("up") on the first post's id and after
\* it comment on the same id; nothing follows create_post or comment
C10_NextRequest ==
    (BeMain /\ n_sent' # n_sent) =>
        /\ n_sent' = n_sent + 1
        /\ \/ ~Called /\ last'.name = "get_profile"
           \/ /\ Returned /\ last.name = "get_profile"
              /\ last'.name = "get_feed" /\ last'.args = [sort |-> "new"]
           \/ /\ Returned /\ last.name = "get_feed"
              /\ ~Truthy(last.outcome.value)
              /\ last'.name = "create_post"
           \/ /\ Returned /\ last.name = "get_feed"
              /\ Truthy(last.outcome.value)
              /\ last'.name = "vote"
              /\ last'.args = [post_id |-> last.outcome.value.v[1].v.id.v, direction |-> "up"]
           \/ /\ Returned /\ last.name = "vote"
              /\ last'.name = "comment"
              /\ last'.args.post_id = last.args.post_id
\* a run of main() that completes sent create_post exactly when the feed was
\* empty, vote and comment exactly when it was not
C10_Completed ==
    (BeMain /\ pc = "exit" /\ exit_code = 0) =>
        /\ Returned
        /\ IF Truthy(locals.posts)
           THEN last.name = "comment" /\ n_sent = 4
                /\ last.args.post_id = locals.posts.v[1].v.id.v
           ELSE last.name = "create_post" /\ n_sent = 3
\* C10: main() of bot-example.py sends its requests in the order get_profile,
\* get_feed, then create_post on an empty feed or vote and comment on the
\* first post, each only after the previous call succeeded
C10_MainOrder == [](C10_Completed) /\ [][C10_NextRequest]_vars

C10_Witness ==
    /\ BeMain
    /\ pc = "exit"
    /\ exit_code = 0
    /\ last.name = "comment"
    /\ last.args.post_id = "p2"
    /\ n_sent = 4
====
